---- MODULE Spec2Model ----
(***************************************************************************)
(* A model of lgtm.py: the remote resolver (GHApi.__init__), the line      *)
(* range parser (parse_line_range), the comment scope / latest-root /      *)
(* thread filters, and one invocation of each of the click commands view,  *)
(* comment, edit and approve, with every external command they run.        *)
(*                                                                         *)
(* Python strings that the code takes apart (the remote URL, the --line    *)
(* argument) are sequences of one-character strings.  Python's None is the *)
(* empty sequence and a present value x is <<x>>.                          *)
(***************************************************************************)
EXTENDS Integers, Sequences, FiniteSets, TLC

VARIABLES
    pc,                 \* position of the invocation in its command function
    cmd,                \* the click command: "view", "comment", "edit", "approve"
    remote,             \* output of `git config --get remote.origin.url`, stripped
    api,                \* the GHApi object: None, or <<[org, repo]>>
    file,               \* --file: None or <<path>>
    line,               \* --line: None or <<characters>>
    comment_text,       \* --comment-text: None or <<text>>
    review_comments,    \* the review comments the hosting service holds for the pull request
    pr_comments,        \* issue comments of the pull request, as listed
    pr_file_comments,   \* review comments of the pull request, filtered by path
    start_line,         \* None or <<int>>
    end_line,           \* None or <<int>>
    pr_file_and_line_comments, \* the line scope
    latest_comment,     \* None or <<comment>>
    latest_comment_thread,     \* replies to the latest comment
    text,               \* None or <<body to send>>
    head,               \* None or <<head commit sha>>
    calls,              \* external commands run so far, in order
    exit,               \* "running", "ok" (exit status 0) or "fail" (non-zero)
    err                 \* the error the invocation ended with, "" if none

vars == <<pc, cmd, remote, api, file, line, comment_text, review_comments, pr_comments,
          pr_file_comments, start_line, end_line, pr_file_and_line_comments,
          latest_comment, latest_comment_thread, text, head, calls, exit, err>>

None == <<>>
Some(x) == <<x>>
Val(o) == o[1]

----------------------------------------------------------------------------
(* Bounds *)

\* longest --line argument, in characters
MaxLen == 4
\* longest listing an external list call returns
MaxComments == 2
\* line numbers of listed comments are 1..MaxLine
MaxLine == 2

----------------------------------------------------------------------------
(* Python string primitives *)

\* s[i:j] with 1-based inclusive bounds
Slice(s, i, j) == SubSeq(s, i, j)

\* sub in s
Contains(s, sub) ==
    \E i \in 1..(Len(s) - Len(sub) + 1) : Slice(s, i, i + Len(sub) - 1) = sub

\* ch in s, for a single character
HasChar(s, ch) == \E i \in 1..Len(s) : s[i] = ch

FirstIndex(s, ch) == CHOOSE i \in 1..Len(s) : s[i] = ch /\ \A j \in 1..(i - 1) : s[j] # ch

\* s.split(ch): always at least one part
RECURSIVE Split(_, _)
Split(s, ch) ==
    IF HasChar(s, ch)
    THEN LET i == FirstIndex(s, ch)
         IN  <<Slice(s, 1, i - 1)>> \o Split(Slice(s, i + 1, Len(s)), ch)
    ELSE <<s>>

\* s.split(ch, 1) when ch is in s: the two sides of the first ch
SplitOnce(s, ch) ==
    LET i == FirstIndex(s, ch)
    IN  <<Slice(s, 1, i - 1), Slice(s, i + 1, Len(s))>>

Digits == {"0", "1", "2", "3", "4", "5", "6", "7", "8", "9"}

DigitVal(c) ==
    CASE c = "0" -> 0 [] c = "1" -> 1 [] c = "2" -> 2 [] c = "3" -> 3
      [] c = "4" -> 4 [] c = "5" -> 5 [] c = "6" -> 6 [] c = "7" -> 7
      [] c = "8" -> 8 [] c = "9" -> 9

RECURSIVE StripLeft(_)
StripLeft(s) == IF Len(s) > 0 /\ s[1] = " " THEN StripLeft(Tail(s)) ELSE s

RECURSIVE StripRight(_)
StripRight(s) ==
    IF Len(s) > 0 /\ s[Len(s)] = " " THEN StripRight(Slice(s, 1, Len(s) - 1)) ELSE s

\* the decimal value of a run of digits and underscores
RECURSIVE DecVal(_, _)
DecVal(s, acc) ==
    IF s = <<>> THEN acc
    ELSE IF s[1] = "_" THEN DecVal(Tail(s), acc)
    ELSE DecVal(Tail(s), 10 * acc + DigitVal(s[1]))

\* digits, with single underscores allowed between two digits
IsDecLiteral(s) ==
    /\ Len(s) > 0
    /\ \A i \in 1..Len(s) : s[i] \in Digits \cup {"_"}
    /\ s[1] \in Digits
    /\ s[Len(s)] \in Digits
    /\ \A i \in 1..(Len(s) - 1) : ~(s[i] = "_" /\ s[i + 1] = "_")

\* int(s) for a str: surrounding whitespace is dropped, one sign is allowed.
\* [ok |-> FALSE] stands for ValueError.
PyInt(s) ==
    LET t == StripRight(StripLeft(s))
        signed == Len(t) > 0 /\ t[1] \in {"+", "-"}
        body == IF signed THEN Tail(t) ELSE t
    IN  IF IsDecLiteral(body)
        THEN [ok |-> TRUE,
              val |-> IF signed /\ t[1] = "-" THEN 0 - DecVal(body, 0) ELSE DecVal(body, 0)]
        ELSE [ok |-> FALSE, val |-> 0]

----------------------------------------------------------------------------
(* parse_line_range *)

\* [ok |-> FALSE] stands for the ValueError int() raises
parse_line_range(line_str) ==
    IF HasChar(line_str, "-")
    THEN LET p == SplitOnce(line_str, "-")
             s == PyInt(p[1])
             e == PyInt(p[2])
         IN  [ok |-> s.ok /\ e.ok, start |-> s.val, end |-> e.val]
    ELSE IF HasChar(line_str, ":")
    THEN LET p == SplitOnce(line_str, ":")
             s == PyInt(p[1])
             e == PyInt(p[2])
         IN  [ok |-> s.ok /\ e.ok, start |-> s.val, end |-> e.val]
    ELSE LET n == PyInt(line_str)
         IN  [ok |-> n.ok, start |-> n.val, end |-> n.val]

----------------------------------------------------------------------------
(* GHApi.__init__ *)

GitAtGithub == <<"g", "i", "t", "@", "g", "i", "t", "h", "u", "b", ".", "c", "o", "m">>
HttpsGithub == <<"h", "t", "t", "p", "s", ":", "/", "/", "g", "i", "t", "h", "u", "b", ".", "c", "o", "m">>

\* The result of the constructor on a remote URL: the org and repo it stores,
\* or the exception it raises ("Exception" is the one raised at line 36,
\* "IndexError" a subscript past the end of a split).
GHApiInit(url) ==
    IF Contains(url, GitAtGithub)
    THEN LET colon == Split(url, ":")
         IN  IF Len(colon) < 2 THEN [ok |-> FALSE, error |-> "IndexError"]
             ELSE LET parts == Split(colon[2], "/")
                  IN  IF Len(parts) < 2 THEN [ok |-> FALSE, error |-> "IndexError"]
                      ELSE [ok |-> TRUE, org |-> parts[1],
                            repo |-> Split(parts[2], ".")[1]]
    ELSE IF Contains(url, HttpsGithub)
    THEN LET parts == Split(url, "/")
         IN  IF Len(parts) < 5 THEN [ok |-> FALSE, error |-> "IndexError"]
             ELSE [ok |-> TRUE, org |-> parts[4], repo |-> Split(parts[5], ".")[1]]
    ELSE [ok |-> FALSE, error |-> "Exception"]

----------------------------------------------------------------------------
(* Review comments as the hosting API lists them.  keys says which of the  *)
(* optional JSON keys the object carries: a key can be absent, present     *)
(* with null (None) or present with a value.                               *)

Paths == {"a.py", "b.py"}
Lines == 1..MaxLine
Bodies(id) == "c" \o ToString(id)

has(c, key) == c.keys[key]

Keys(with_line, with_reply) == [line |-> with_line, in_reply_to_id |-> with_reply]

\* a root comment: no in_reply_to_id key; line absent, null or a number
RootComments(id) ==
    {[id |-> id, path |-> p, keys |-> Keys(FALSE, FALSE), line |-> None,
      in_reply_to_id |-> None, body |-> Bodies(id)] : p \in Paths}
    \cup
    {[id |-> id, path |-> p, keys |-> Keys(TRUE, FALSE), line |-> l,
      in_reply_to_id |-> None, body |-> Bodies(id)] :
        p \in Paths, l \in {None} \cup {Some(n) : n \in Lines}}

\* a reply as the API lists it: anchored where its root is
ReplyTo(id, root) ==
    [id |-> id, path |-> root.path, keys |-> Keys(has(root, "line"), TRUE),
     line |-> root.line, in_reply_to_id |-> Some(root.id), body |-> Bodies(id)]

\* any comment object with the keys the code reads
AnyComments(id) ==
    {[id |-> id, path |-> p, keys |-> Keys(kl, kr), line |-> l, in_reply_to_id |-> r,
      body |-> Bodies(id)] :
        p \in Paths,
        kl \in BOOLEAN, l \in {None} \cup {Some(n) : n \in Lines},
        kr \in BOOLEAN, r \in {None} \cup {Some(i) : i \in 1..MaxComments}}

WellKeyed(c) ==
    /\ (~has(c, "line") => c.line = None)
    /\ (has(c, "in_reply_to_id") <=> c.in_reply_to_id # None)

\* every listing of at most n comment objects, ids in listing order
RECURSIVE ListingsUpTo(_)
ListingsUpTo(n) ==
    IF n = 0 THEN {<<>>}
    ELSE LET shorter == ListingsUpTo(n - 1)
         IN  shorter \cup
             {Append(l, c) : l \in {k \in shorter : Len(k) = n - 1},
                             c \in {d \in AnyComments(n) : WellKeyed(d)}}

AnyListings == ListingsUpTo(MaxComments)

\* the listings the hosting service produces: roots, and replies to earlier roots
RECURSIVE ServiceListings(_)
ServiceListings(n) ==
    IF n = 0 THEN {<<>>}
    ELSE LET shorter == ServiceListings(n - 1)
             full == {l \in shorter : Len(l) = n - 1}
         IN  shorter \cup
             {Append(l, c) : l \in full, c \in RootComments(n)} \cup
             UNION {{Append(l, ReplyTo(n, l[i])) :
                        i \in {j \in 1..Len(l) : ~has(l[j], "in_reply_to_id")}} : l \in full}

\* issue (pull-request level) comments: only id and body are read
RECURSIVE IssueListing(_)
IssueListing(n) ==
    IF n = 0 THEN <<>> ELSE Append(IssueListing(n - 1), [id |-> n, body |-> Bodies(n)])

----------------------------------------------------------------------------
(* The comment filters of view, comment and edit *)

\* [comment for comment in pr_file_comments if comment['path'] == file]
FilterPath(comments, path) == SelectSeq(comments, LAMBDA c : c.path = path)

\* the line filter.  With start = end it tests comment['line'] == start_line;
\* otherwise it tests start_line <= comment['line'] <= end_line, and Python
\* raises TypeError when it orders an int against None.
FilterLines(comments, start, end) ==
    IF start = end
    THEN [ok |-> TRUE,
          list |-> SelectSeq(comments, LAMBDA c : has(c, "line") /\ c.line = Some(start))]
    ELSE IF \E i \in 1..Len(comments) : has(comments[i], "line") /\ comments[i].line = None
    THEN [ok |-> FALSE, list |-> <<>>]
    ELSE [ok |-> TRUE,
          list |-> SelectSeq(comments, LAMBDA c :
                      has(c, "line") /\ start <= Val(c.line) /\ Val(c.line) <= end)]

\* the loop that keeps the last comment without an in_reply_to_id key
RECURSIVE LatestFrom(_, _)
LatestFrom(comments, latest) ==
    IF comments = <<>> THEN latest
    ELSE LatestFrom(Tail(comments),
                    IF ~has(Head(comments), "in_reply_to_id")
                    THEN Some(Head(comments)) ELSE latest)

\* the loop with a break: the first root is kept
LatestCommentFirst(comments) ==
    LET roots == SelectSeq(comments, LAMBDA c : ~has(c, "in_reply_to_id"))
    IN  IF roots = <<>> THEN None ELSE Some(roots[1])

LatestComment(comments) == LatestFrom(comments, None)

\* the filter without the id test: every reply of the file
CommentThreadAnyReply(comments, root) ==
    SelectSeq(comments, LAMBDA c : has(c, "in_reply_to_id"))

\* [c for c in pr_file_comments if 'in_reply_to_id' in c and c['in_reply_to_id'] == root['id']]
CommentThread(comments, root) ==
    SelectSeq(comments, LAMBDA c : has(c, "in_reply_to_id") /\ c.in_reply_to_id = Some(root.id))

----------------------------------------------------------------------------
(* External commands.  Each entry of calls is one subprocess the code ran. *)

NoArgs == [target |-> None, body |-> None, commit_id |-> None, path |-> None,
           line |-> None, start_line |-> None, subject_type |-> None]

\* out is what the command printed when the code uses it, error the output
\* of a failed command that gh_api looked at, raised the exception gh_api left
\* the call with
Call(kind, method, args, ok) ==
    [kind |-> kind, method |-> method, args |-> args, ok |-> ok,
     out |-> None, error |-> None, raised |-> None]

\* one element of gh_api's *args: a flag ('-f', '-F') or a 'name=value' string
Flag(name) == [kind |-> "flag", name |-> name, value |-> ""]
Field(name, value) == [kind |-> "field", name |-> name, value |-> value]

\* the output of a failed gh command, by the substrings gh_api looks for
ErrorOutput(unresolved, path, validation) ==
    [unresolved |-> unresolved, path |-> path, validation |-> validation]
ErrorOutputs == {ErrorOutput(TRUE, TRUE, FALSE), ErrorOutput(TRUE, FALSE, FALSE),
                 ErrorOutput(FALSE, FALSE, TRUE), ErrorOutput(FALSE, FALSE, FALSE),
                 ErrorOutput(TRUE, TRUE, TRUE)}

\* a gh command succeeds (None) or fails with some output
ApiOutcomes == {None} \cup {Some(e) : e \in ErrorOutputs}

DefaultFilePath == "specified file"

\* for i, arg in enumerate(args): the loop is left at the first '-f' that has
\* a successor, whether or not the successor starts with 'path='
FilePath(args) ==
    LET flags == {i \in 1..Len(args) - 1 : args[i] = Flag("-f")}
    IN  IF flags = {} THEN DefaultFilePath
        ELSE LET i == CHOOSE i \in flags : \A j \in flags : i <= j
             IN  IF args[i + 1].kind = "field" /\ args[i + 1].name = "path"
                 THEN args[i + 1].value
                 ELSE DefaultFilePath

\* the exception gh_api raises for a failed command
gh_api_error(error_output, args) ==
    IF error_output.unresolved /\ error_output.path
    THEN [exc |-> "FileNotInPRError", file_path |-> FilePath(args)]
    ELSE IF error_output.validation
         THEN [exc |-> "ValidationError", file_path |-> ""]
         ELSE [exc |-> "CalledProcessError", file_path |-> ""]

\* api.gh_api(path, method, *args) as an entry of calls
gh_api(kind, method, fields, args, outcome) ==
    IF outcome = None
    THEN Call(kind, method, fields, TRUE)
    ELSE [Call(kind, method, fields, FALSE) EXCEPT
              !.error = outcome,
              !.raised = Some(gh_api_error(Val(outcome), args))]

Raised(c) == Val(c.raised).exc

Shas == {"sha1", "sha2"}
EditedBody == "edited"

\* what the editor can leave in the temporary file, stripped
EditorResults(content) == {"", EditedBody} \cup {content}

\* Python truthiness of an optional str
Truthy(o) == o # None /\ Val(o) # ""

Mutating(c) == c.method \in {"POST", "PATCH"}

\* the invocation ends: a return is status "ok", an exception that leaves the
\* command function is status "fail"
Finish(status, error) ==
    /\ pc' = "done"
    /\ exit' = status
    /\ err' = error

Goto(label) ==
    /\ pc' = label
    /\ UNCHANGED <<exit, err>>

inputs == <<cmd, remote, file, line, comment_text, review_comments>>
scope_vars == <<start_line, end_line, pr_file_and_line_comments, latest_comment,
                latest_comment_thread>>

----------------------------------------------------------------------------
(* Steps shared by the commands *)

\* validate_pr: `gh pr view` (or the branch lookup) finds the pull request or not
ValidatePr ==
    /\ pc = "start"
    /\ \E ok \in BOOLEAN :
        /\ calls' = Append(calls, Call("pr_view", "GET", NoArgs, ok))
        /\ IF ~ok THEN Finish("fail", "PR not found")
           ELSE IF cmd = "approve" THEN Goto("approve")
           ELSE Goto("init_api")
    /\ UNCHANGED <<inputs, api, pr_comments, pr_file_comments, scope_vars, text, head>>

\* api = GHApi()
NewGHApi ==
    /\ pc = "init_api"
    /\ LET r == GHApiInit(remote)
       IN  IF r.ok
           THEN /\ api' = Some([org |-> r.org, repo |-> r.repo])
                /\ Goto("branch")
           ELSE /\ api' = None
                /\ Finish("fail", r.error)
    /\ UNCHANGED <<inputs, pr_comments, pr_file_comments, scope_vars, text, head, calls>>

\* if file is None and line is not None: raise click.ClickException
LineWithoutFile ==
    /\ pc = "branch"
    /\ file = None
    /\ line # None
    /\ Finish("fail", "No file path provided but line number provided")
    /\ UNCHANGED <<inputs, api, pr_comments, pr_file_comments, scope_vars, text, head, calls>>

\* the issue comments listing, inside try/except: a failure gives []
ListIssueComments ==
    /\ pc = "branch"
    /\ file = None
    /\ line = None
    /\ \E ok \in BOOLEAN, n \in 0..MaxComments :
        /\ calls' = Append(calls, Call("list_issue", "GET", NoArgs, ok))
        /\ pr_comments' = IF ok THEN IssueListing(n) ELSE <<>>
    /\ Goto(CASE cmd = "view" -> "view_all"
              [] cmd = "comment" -> "pr_text"
              [] cmd = "edit" -> "pr_edit")
    /\ UNCHANGED <<inputs, api, pr_file_comments, scope_vars, text, head>>

\* json.loads(api.gh_api(f'pulls/{pr}/comments')) and the path filter; a
\* failure of gh_api is not caught here
ListFileComments ==
    /\ pc = "branch"
    /\ file # None
    /\ \E outcome \in ApiOutcomes :
        LET c == gh_api("list_review", "GET", NoArgs, <<>>, outcome)
        IN  /\ calls' = Append(calls, c)
            /\ IF c.ok
               THEN /\ pr_file_comments' = FilterPath(review_comments, Val(file))
                    /\ Goto("parse")
               ELSE /\ pr_file_comments' = <<>>
                    /\ Finish("fail", Raised(c))
    /\ UNCHANGED <<inputs, api, pr_comments, scope_vars, text, head>>

\* start_line, end_line = parse_line_range(line), ValueError turned into a
\* ClickException
ParseLine ==
    /\ pc = "parse"
    /\ IF line = None
       THEN /\ UNCHANGED <<start_line, end_line>>
            /\ Goto("file_level")
       ELSE LET r == parse_line_range(Val(line))
            IN  IF r.ok
                THEN /\ start_line' = Some(r.start)
                     /\ end_line' = Some(r.end)
                     /\ Goto("line_level")
                ELSE /\ UNCHANGED <<start_line, end_line>>
                     /\ Finish("fail", "Invalid line range format")
    /\ UNCHANGED <<inputs, api, pr_comments, pr_file_comments, pr_file_and_line_comments,
                   latest_comment, latest_comment_thread, text, head, calls>>

\* after the scope is selected: view prints it and returns, comment goes on to
\* the comment text, edit needs a latest comment
AfterScope(latest) ==
    CASE cmd = "view" -> Finish("ok", "")
      [] cmd = "comment" -> Goto("text")
      [] cmd = "edit" -> IF latest = None THEN Finish("fail", "No comment to edit")
                         ELSE Goto("editor")

\* if line is None: the scope is every comment of the file
FileLevel ==
    /\ pc = "file_level"
    /\ latest_comment' = IF cmd = "view" THEN None ELSE LatestComment(pr_file_comments)
    /\ AfterScope(latest_comment')
    /\ UNCHANGED <<inputs, api, pr_comments, pr_file_comments, start_line, end_line,
                   pr_file_and_line_comments, latest_comment_thread, text, head, calls>>

\* the line filter and the latest comment of the line scope
LineLevel ==
    /\ pc = "line_level"
    /\ LET r == FilterLines(pr_file_comments, Val(start_line), Val(end_line))
       IN  IF r.ok
           THEN /\ pr_file_and_line_comments' = r.list
                /\ latest_comment' = IF cmd = "view" THEN None ELSE LatestComment(r.list)
                /\ AfterScope(latest_comment')
           ELSE /\ UNCHANGED <<pr_file_and_line_comments, latest_comment>>
                /\ Finish("fail", "TypeError")
    /\ UNCHANGED <<inputs, api, pr_comments, pr_file_comments, start_line, end_line,
                   latest_comment_thread, text, head, calls>>

----------------------------------------------------------------------------
(* view *)

\* view without --file: the review comments are listed inside try/except too,
\* everything is printed, and the command returns
ViewAll ==
    /\ pc = "view_all"
    /\ \E outcome \in ApiOutcomes :
        calls' = Append(calls, gh_api("list_review", "GET", NoArgs, <<>>, outcome))
    /\ Finish("ok", "")
    /\ UNCHANGED <<inputs, api, pr_comments, pr_file_comments, scope_vars, text, head>>

----------------------------------------------------------------------------
(* comment *)

\* the body to send: --comment-text if it is truthy, else what the editor
\* returns; an empty editor result prints "Empty comment, exiting..." and
\* returns.  next is the label the command goes on to.
GetText(next) ==
    IF Truthy(comment_text)
    THEN /\ text' = comment_text
         /\ UNCHANGED calls
         /\ Goto(next)
    ELSE \E ok \in BOOLEAN, edited \in EditorResults("") :
            /\ calls' = Append(calls, Call("editor", "RUN", NoArgs, ok))
            /\ IF ~ok
               THEN /\ edited = ""
                    /\ UNCHANGED text
                    /\ Finish("fail", "CalledProcessError")
               ELSE /\ text' = Some(edited)
                    /\ IF edited = "" THEN Finish("ok", "") ELSE Goto(next)

\* comment without --file: the text
PrCommentText ==
    /\ pc = "pr_text"
    /\ GetText("pr_create")
    /\ UNCHANGED <<inputs, api, pr_comments, pr_file_comments, scope_vars, head>>

\* subprocess.check_output(['gh', 'pr', 'comment', ...]), not in a try
PrCommentCreate ==
    /\ pc = "pr_create"
    /\ \E ok \in BOOLEAN :
        /\ calls' = Append(calls, Call("pr_comment", "POST", [NoArgs EXCEPT !.body = text], ok))
        /\ IF ok THEN Finish("ok", "") ELSE Finish("fail", "CalledProcessError")
    /\ UNCHANGED <<inputs, api, pr_comments, pr_file_comments, scope_vars, text, head>>

\* comment with --file: the text, for the file scope and for the line scope
CommentText ==
    /\ pc = "text"
    /\ GetText("thread")
    /\ UNCHANGED <<inputs, api, pr_comments, pr_file_comments, scope_vars, head>>

\* what the user answers to "Continue the existing thread?" and "Create new thread?"
Answers == {"continue", "new", "abort"}

\* if latest_comment is not None: its thread is computed and printed, and the
\* two confirmations are asked.  click.echo('>', body) passes the body as the
\* file to write to, which raises AttributeError for the first reply printed.
PresentThread ==
    /\ pc = "thread"
    /\ IF latest_comment = None
       THEN /\ UNCHANGED latest_comment_thread
            /\ Goto("head")
       ELSE /\ latest_comment_thread' = CommentThread(pr_file_comments, Val(latest_comment))
            /\ IF latest_comment_thread' # <<>>
               THEN Finish("fail", "AttributeError")
               ELSE \E answer \in Answers :
                        CASE answer = "continue" -> Goto("reply")
                          [] answer = "new" -> Goto("head")
                          [] answer = "abort" -> Finish("ok", "")
    /\ UNCHANGED <<inputs, api, pr_comments, pr_file_comments, start_line, end_line,
                   pr_file_and_line_comments, latest_comment, text, head, calls>>

\* the reply without the return that follows it: the flow goes on to create a
\* root comment as well
ReplyNoReturn ==
    /\ pc = "reply"
    /\ \E outcome \in ApiOutcomes :
        LET c == gh_api("reply", "POST",
                        [NoArgs EXCEPT !.target = Some(Val(latest_comment).id),
                                       !.body = text],
                        <<Flag("-f"), Field("body", Val(text))>>, outcome)
        IN  /\ calls' = Append(calls, c)
            /\ IF c.ok THEN Goto("head") ELSE Finish("fail", Raised(c))
    /\ UNCHANGED <<inputs, api, pr_comments, pr_file_comments, scope_vars, text, head>>

\* POST pulls/{pr}/comments/{id}/replies, not in a try
Reply ==
    /\ pc = "reply"
    /\ \E outcome \in ApiOutcomes :
        LET c == gh_api("reply", "POST",
                        [NoArgs EXCEPT !.target = Some(Val(latest_comment).id),
                                       !.body = text],
                        <<Flag("-f"), Field("body", Val(text))>>, outcome)
        IN  /\ calls' = Append(calls, c)
            /\ IF c.ok THEN Finish("ok", "") ELSE Finish("fail", Raised(c))
    /\ UNCHANGED <<inputs, api, pr_comments, pr_file_comments, scope_vars, text, head>>

\* the fetch with its result ignored in favour of an id kept from before
FetchHeadCached ==
    /\ pc = "head"
    /\ \/ \E sha \in Shas :
              /\ calls' = Append(calls, [gh_api("head", "GET", NoArgs, <<>>, None)
                                            EXCEPT !.out = Some(sha)])
              /\ head' = Some("sha1")
              /\ Goto("create")
       \/ \E e \in ErrorOutputs :
              LET c == gh_api("head", "GET", NoArgs, <<>>, Some(e))
              IN  /\ calls' = Append(calls, c)
                  /\ UNCHANGED head
                  /\ Finish("fail", Raised(c))
    /\ UNCHANGED <<inputs, api, pr_comments, pr_file_comments, scope_vars, text>>

\* head = json.loads(api.gh_api(f'pulls/{pr}'))['head']['sha'], not in a try
FetchHead ==
    /\ pc = "head"
    /\ \/ \E sha \in Shas :
              /\ calls' = Append(calls, [gh_api("head", "GET", NoArgs, <<>>, None)
                                            EXCEPT !.out = Some(sha)])
              /\ head' = Some(sha)
              /\ Goto("create")
       \/ \E e \in ErrorOutputs :
              LET c == gh_api("head", "GET", NoArgs, <<>>, Some(e))
              IN  /\ calls' = Append(calls, c)
                  /\ UNCHANGED head
                  /\ Finish("fail", Raised(c))
    /\ UNCHANGED <<inputs, api, pr_comments, pr_file_comments, scope_vars, text>>

\* the fields with start_line sent for a single line too
CreateParamsAlwaysStart ==
    IF line = None
    THEN [NoArgs EXCEPT !.body = text, !.commit_id = head, !.path = file,
                        !.subject_type = Some("file")]
    ELSE [NoArgs EXCEPT !.body = text, !.commit_id = head, !.path = file,
                        !.line = end_line, !.start_line = start_line]

\* the -f/-F fields of the POST that creates a root comment
CreateParams ==
    IF line = None
    THEN [NoArgs EXCEPT !.body = text, !.commit_id = head, !.path = file,
                        !.subject_type = Some("file")]
    ELSE LET base == [NoArgs EXCEPT !.body = text, !.commit_id = head, !.path = file,
                                    !.line = end_line]
         IN  IF start_line # end_line
             THEN [base EXCEPT !.start_line = start_line]
             ELSE base

\* the *args of the POST that creates a root comment, in the order the code
\* passes them
CreateArgs ==
    LET common == <<Flag("-f"), Field("body", Val(text)),
                    Flag("-f"), Field("commit_id", Val(head)),
                    Flag("-f"), Field("path", Val(file))>>
    IN  IF line = None
        THEN common \o <<Flag("-f"), Field("side", "RIGHT"),
                         Flag("-f"), Field("subject_type", "file")>>
        ELSE common \o <<Flag("-F"), Field("line", ToString(Val(end_line))),
                         Flag("-f"), Field("side", "RIGHT")>>
                    \o (IF start_line # end_line
                        THEN <<Flag("-F"), Field("start_line", ToString(Val(start_line))),
                               Flag("-f"), Field("start_side", "RIGHT")>>
                        ELSE <<>>)

\* POST pulls/{pr}/comments inside try/except: whatever gh_api raises is
\* printed to stderr and the command returns
CreateComment ==
    /\ pc = "create"
    /\ \E outcome \in ApiOutcomes :
        calls' = Append(calls, gh_api("create", "POST", CreateParams, CreateArgs, outcome))
    /\ Finish("ok", "")
    /\ UNCHANGED <<inputs, api, pr_comments, pr_file_comments, scope_vars, text, head>>

----------------------------------------------------------------------------
(* edit *)

\* edit without --file: the last issue comment, or 'No comment to edit'
PrEditSelect ==
    /\ pc = "pr_edit"
    /\ IF pr_comments = <<>>
       THEN /\ UNCHANGED latest_comment
            /\ Finish("fail", "No comment to edit")
       ELSE /\ latest_comment' = Some(pr_comments[Len(pr_comments)])
            /\ Goto("pr_editor")
    /\ UNCHANGED <<inputs, api, pr_comments, pr_file_comments, start_line, end_line,
                   pr_file_and_line_comments, latest_comment_thread, text, head, calls>>

\* new_body = open_editor(old_body); empty raises ClickException("Empty
\* comment"), unchanged returns.  next is the label of the PATCH.
EditBody(next) ==
    \E ok \in BOOLEAN, edited \in EditorResults(Val(latest_comment).body) :
        /\ calls' = Append(calls, Call("editor", "RUN", NoArgs, ok))
        /\ IF ~ok
           THEN /\ edited = ""
                /\ UNCHANGED text
                /\ Finish("fail", "CalledProcessError")
           ELSE /\ text' = Some(edited)
                /\ IF edited = "" THEN Finish("fail", "Empty comment")
                   ELSE IF edited = Val(latest_comment).body THEN Finish("ok", "")
                   ELSE Goto(next)

PrEditBody ==
    /\ pc = "pr_editor"
    /\ EditBody("pr_patch")
    /\ UNCHANGED <<inputs, api, pr_comments, pr_file_comments, scope_vars, head>>

\* PATCH issues/comments/{id} inside try/except that raises ClickException
PrEditPatch ==
    /\ pc = "pr_patch"
    /\ \E ok \in BOOLEAN :
        /\ calls' = Append(calls, Call("issue_patch", "PATCH",
                        [NoArgs EXCEPT !.target = Some(Val(latest_comment).id),
                                       !.body = text], ok))
        /\ IF ok THEN Finish("ok", "") ELSE Finish("fail", "Failed to update comment")
    /\ UNCHANGED <<inputs, api, pr_comments, pr_file_comments, scope_vars, text, head>>

\* edit with --file: the editor on the latest comment of the scope
EditFileBody ==
    /\ pc = "editor"
    /\ EditBody("patch")
    /\ UNCHANGED <<inputs, api, pr_comments, pr_file_comments, scope_vars, head>>

\* api.gh_api(f'pulls/comments/{id}', 'PATCH', ...), not in a try
EditPatch ==
    /\ pc = "patch"
    /\ \E outcome \in ApiOutcomes :
        LET c == gh_api("patch", "PATCH",
                        [NoArgs EXCEPT !.target = Some(Val(latest_comment).id),
                                       !.body = text],
                        <<Flag("-f"), Field("body", Val(text))>>, outcome)
        IN  /\ calls' = Append(calls, c)
            /\ IF c.ok THEN Finish("ok", "") ELSE Finish("fail", Raised(c))
    /\ UNCHANGED <<inputs, api, pr_comments, pr_file_comments, scope_vars, text, head>>

----------------------------------------------------------------------------
(* approve *)

\* gh pr review --approve, CalledProcessError turned into a ClickException
Approve ==
    /\ pc = "approve"
    /\ \E ok \in BOOLEAN :
        /\ calls' = Append(calls, Call("approve", "POST", [NoArgs EXCEPT !.body = comment_text], ok))
        /\ IF ok THEN Finish("ok", "") ELSE Finish("fail", "Failed to approve PR")
    /\ UNCHANGED <<inputs, api, pr_comments, pr_file_comments, scope_vars, text, head>>

----------------------------------------------------------------------------
(* Inputs *)

Cmds == {"view", "comment", "edit", "approve"}

SshRemote == GitAtGithub \o <<":", "o", "/", "r", ".", "g", "i", "t">>
LocalRemote == <<"/", "s", "r", "v", "/", "r">>
FlowRemotes == {SshRemote, LocalRemote}

FlowLines == {None, Some(<<"1">>), Some(<<"1", "-", "2">>), Some(<<"2", "-", "1">>),
              Some(<<"a">>)}

Texts == {None, Some(""), Some("hello")}

\* the state of an invocation before its first step
Fresh ==
    /\ api = None
    /\ pr_comments = <<>>
    /\ pr_file_comments = <<>>
    /\ start_line = None
    /\ end_line = None
    /\ pr_file_and_line_comments = <<>>
    /\ latest_comment = None
    /\ latest_comment_thread = <<>>
    /\ text = None
    /\ head = None
    /\ exit = "running"
    /\ err = ""

\* click gives --file and --line to view, comment and edit, and --comment-text
\* to comment and approve; the review comments are read only with --file
Init ==
    /\ pc = "start"
    /\ cmd \in Cmds
    /\ remote \in FlowRemotes
    /\ file \in (IF cmd = "approve" THEN {None} ELSE {None, Some("a.py")})
    /\ line \in (IF cmd = "approve" THEN {None} ELSE FlowLines)
    /\ comment_text \in (IF cmd \in {"comment", "approve"} THEN Texts ELSE {None})
    /\ review_comments \in (IF file = None THEN {<<>>} ELSE ServiceListings(MaxComments))
    /\ calls = <<>>
    /\ Fresh

Next ==
    \/ ValidatePr
    \/ NewGHApi
    \/ LineWithoutFile
    \/ ListIssueComments
    \/ ListFileComments
    \/ ParseLine
    \/ FileLevel
    \/ LineLevel
    \/ ViewAll
    \/ PrCommentText
    \/ PrCommentCreate
    \/ CommentText
    \/ PresentThread
    \/ Reply
    \/ FetchHead
    \/ CreateComment
    \/ PrEditSelect
    \/ PrEditBody
    \/ PrEditPatch
    \/ EditFileBody
    \/ EditPatch
    \/ Approve

Spec == Init /\ [][Next]_vars

----------------------------------------------------------------------------
(* The remote resolver on its own: every remote URL of the set below *)

Hosts == {<<"g", "i", "t", "h", "u", "b", ".", "c", "o", "m">>,
          <<"g", "i", "t", "l", "a", "b", ".", "e", "x", "a", "m", "p", "l", "e", ".", "o", "r", "g">>}
Orgs == {<<"o">>, <<"m", "y", "-", "o">>}
Repos == {<<"r">>, <<"l", "g", "t", "m">>, <<"m", "y", ".", "r">>, <<"a", ".", "b", ".", "c">>}
DotGit == <<".", "g", "i", "t">>

SshUrl(host, org, repo, ext) == <<"g", "i", "t", "@">> \o host \o <<":">> \o org \o <<"/">> \o repo \o ext
HttpsUrl(host, org, repo, ext) ==
    <<"h", "t", "t", "p", "s", ":", "/", "/">> \o host \o <<"/">> \o org \o <<"/">> \o repo \o ext

SshUrls == {SshUrl(h, o, r, e) : h \in Hosts, o \in Orgs, r \in Repos, e \in {<<>>, DotGit}}
HttpsUrls == {HttpsUrl(h, o, r, e) : h \in Hosts, o \in Orgs, r \in Repos, e \in {<<>>, DotGit}}

\* remote URLs of other forms
OtherUrls ==
    {<<>>,
     LocalRemote,
     GitAtGithub,
     GitAtGithub \o <<":", "o">>,
     GitAtGithub \o <<"/", "o", "/", "r">>,
     <<"s", "s", "h", ":", "/", "/">> \o GitAtGithub \o <<"/", "o", "/", "r", ".", "g", "i", "t">>,
     <<"s", "s", "h", ":", "/", "/">> \o GitAtGithub \o <<":", "2", "2", "/", "o", "/", "r">>,
     HttpsGithub,
     HttpsGithub \o <<"/", "o">>,
     HttpsGithub \o <<"/">>,
     <<"h", "t", "t", "p", ":", "/", "/", "g", "i", "t", "h", "u", "b", ".", "c", "o", "m", "/", "o", "/", "r">>,
     <<"g", "i", "t", ":", "/", "/", "g", "i", "t", "h", "u", "b", ".", "c", "o", "m", "/", "o", "/", "r">>,
     <<"f", "i", "l", "e", ":", "/", "/", "/", "r">>,
     <<"o", "/", "r">>}

RemoteUrls == SshUrls \cup HttpsUrls \cup OtherUrls

\* an invocation that has found its pull request and is about to build GHApi
InitRemote ==
    /\ pc = "init_api"
    /\ cmd \in Cmds \ {"approve"}
    /\ remote \in RemoteUrls
    /\ file = None
    /\ line = None
    /\ comment_text = None
    /\ review_comments = <<>>
    /\ calls = <<Call("pr_view", "GET", NoArgs, TRUE)>>
    /\ Fresh

SpecRemote == InitRemote /\ [][NewGHApi]_vars

----------------------------------------------------------------------------
(* The line range parser on its own: every --line argument of at most      *)
(* MaxLen characters of the alphabet below                                 *)

LineChars == {"1", "5", "-", ":", "+", "_", " ", "a"}

RECURSIVE StringsUpTo(_)
StringsUpTo(n) ==
    IF n = 0 THEN {<<>>}
    ELSE LET shorter == StringsUpTo(n - 1)
         IN  shorter \cup {Append(s, c) : s \in shorter, c \in LineChars}

LineStrings == StringsUpTo(MaxLen)

\* an invocation with --file that has listed the comments and is about to
\* parse --line
InitRange ==
    /\ pc = "parse"
    /\ cmd \in Cmds \ {"approve"}
    /\ remote = SshRemote
    /\ file = Some("a.py")
    /\ line \in {Some(s) : s \in LineStrings}
    /\ comment_text = None
    /\ review_comments = <<>>
    /\ calls = <<Call("pr_view", "GET", NoArgs, TRUE),
                 Call("list_review", "GET", NoArgs, TRUE)>>
    /\ api = Some([org |-> <<"o">>, repo |-> <<"r">>])
    /\ pr_comments = <<>>
    /\ pr_file_comments = <<>>
    /\ start_line = None
    /\ end_line = None
    /\ pr_file_and_line_comments = <<>>
    /\ latest_comment = None
    /\ latest_comment_thread = <<>>
    /\ text = None
    /\ head = None
    /\ exit = "running"
    /\ err = ""

SpecRange == InitRange /\ [][ParseLine]_vars

----------------------------------------------------------------------------
(* The comment filters on their own: every list of comment objects *)

ScopeLines == {None, Some(<<"1">>), Some(<<"1", "-", "2">>)}

\* an invocation of comment or edit with --file that is about to list the
\* review comments
InitScope ==
    /\ pc = "branch"
    /\ cmd \in {"comment", "edit"}
    /\ remote = SshRemote
    /\ file = Some("a.py")
    /\ line \in ScopeLines
    /\ comment_text = (IF cmd = "comment" THEN Some("hello") ELSE None)
    /\ review_comments \in AnyListings
    /\ calls = <<Call("pr_view", "GET", NoArgs, TRUE)>>
    /\ api = Some([org |-> <<"o">>, repo |-> <<"r">>])
    /\ pr_comments = <<>>
    /\ pr_file_comments = <<>>
    /\ start_line = None
    /\ end_line = None
    /\ pr_file_and_line_comments = <<>>
    /\ latest_comment = None
    /\ latest_comment_thread = <<>>
    /\ text = None
    /\ head = None
    /\ exit = "running"
    /\ err = ""

NextScope ==
    \/ ListFileComments
    \/ ParseLine
    \/ FileLevel
    \/ LineLevel
    \/ CommentText
    \/ PresentThread

SpecScope == InitScope /\ [][NextScope]_vars

----------------------------------------------------------------------------
(* Vocabulary of the properties *)

NonEmptyWithout(s, chars) == Len(s) > 0 /\ \A i \in 1..Len(s) : s[i] \notin chars

\* git@<host>:<org>/<repo>
IsSshForm(u) ==
    \E i, j \in 1..Len(u) :
        /\ 5 < i /\ i < j
        /\ Slice(u, 1, 4) = <<"g", "i", "t", "@">>
        /\ u[i] = ":" /\ u[j] = "/"
        /\ NonEmptyWithout(Slice(u, 5, i - 1), {":", "/", "@"})
        /\ NonEmptyWithout(Slice(u, i + 1, j - 1), {":", "/"})
        /\ NonEmptyWithout(Slice(u, j + 1, Len(u)), {":", "/"})

\* https://<host>/<org>/<repo>
IsHttpsForm(u) ==
    \E i, j \in 1..Len(u) :
        /\ 9 < i /\ i < j
        /\ Slice(u, 1, 8) = <<"h", "t", "t", "p", "s", ":", "/", "/">>
        /\ u[i] = "/" /\ u[j] = "/"
        /\ NonEmptyWithout(Slice(u, 9, i - 1), {":", "/", "@"})
        /\ NonEmptyWithout(Slice(u, i + 1, j - 1), {":", "/"})
        /\ NonEmptyWithout(Slice(u, j + 1, Len(u)), {":", "/"})

\* a non-negative integer written in digits
IsNumber(s) == Len(s) > 0 /\ \A i \in 1..Len(s) : s[i] \in Digits

\* "N-M" or "N:M"
IsPair(s, i) ==
    /\ s[i] \in {"-", ":"}
    /\ IsNumber(Slice(s, 1, i - 1))
    /\ IsNumber(Slice(s, i + 1, Len(s)))

IsRangeShape(s) == IsNumber(s) \/ \E i \in 1..Len(s) : IsPair(s, i)

\* the values the three shapes stand for
RangeStart(s) ==
    IF IsNumber(s) THEN DecVal(s, 0)
    ELSE DecVal(Slice(s, 1, (CHOOSE i \in 1..Len(s) : IsPair(s, i)) - 1), 0)
RangeEnd(s) ==
    IF IsNumber(s) THEN DecVal(s, 0)
    ELSE DecVal(Slice(s, (CHOOSE i \in 1..Len(s) : IsPair(s, i)) + 1, Len(s)), 0)

CallsOf(kinds) == {i \in 1..Len(calls) : calls[i].kind \in kinds}
NoMutation == \A i \in 1..Len(calls) : ~Mutating(calls[i])
NoEditor == CallsOf({"editor"}) = {}

\* the review comments listing succeeded
ListedFileComments == \E i \in CallsOf({"list_review"}) : calls[i].ok /\ file # None

IsRoot(c) == ~has(c, "in_reply_to_id")
LineWithin(c, a, b) == has(c, "line") /\ c.line # None /\ a <= Val(c.line) /\ Val(c.line) <= b

\* the scope the user asked for, taken from the comments the service holds
WantedScope ==
    IF start_line = None
    THEN SelectSeq(review_comments, LAMBDA c : c.path = Val(file))
    ELSE SelectSeq(review_comments, LAMBDA c :
            c.path = Val(file) /\ LineWithin(c, Val(start_line), Val(end_line)))

\* the scope step of an invocation with --file has run
PathFiltered == ListedFileComments /\ pc # "branch"
ScopeSelected ==
    /\ ListedFileComments
    /\ pc \notin {"branch", "parse", "file_level", "line_level"}
    /\ (line # None => start_line # None)

\* the list the latest comment is looked up in
ScopedList == IF line = None THEN pr_file_comments ELSE pr_file_and_line_comments

RootIndexes(l) == {i \in 1..Len(l) : IsRoot(l[i])}

----------------------------------------------------------------------------
(* Properties *)

\* C1: every remote URL of SSH form git@<host>:<org>/<repo>(.git)? or of HTTPS
\* form https://<host>/<org>/<repo>(.git)? resolves to exactly (org, repo),
\* only a trailing ".git" removed, repo names with a "." included.
C1_ResolvesOrgRepo ==
    pc # "init_api" =>
        \A h \in Hosts, o \in Orgs, r \in Repos, e \in {<<>>, DotGit} :
            remote \in {SshUrl(h, o, r, e), HttpsUrl(h, o, r, e)} =>
                api = Some([org |-> o, repo |-> r])

\* C2: a remote URL of neither form fails with the error that the remote URL
\* could not be parsed: no (org, repo) is returned, no other error is raised.
C2_OtherFormsRejected ==
    (pc # "init_api" /\ ~IsSshForm(remote) /\ ~IsHttpsForm(remote)) =>
        (api = None /\ exit = "fail" /\ err = "Exception")

\* C3: "N" parses to (N,N), "N-M" and "N:M" to (N,M); every other string ends
\* the invocation with the invalid line range error, before any comment is
\* in the line scope and before any mutation is sent.
C3_LineRangeParsing ==
    (pc # "parse" /\ line # None /\ CallsOf({"list_review"}) # {}) =>
        IF IsRangeShape(Val(line))
        THEN /\ start_line = Some(RangeStart(Val(line)))
             /\ end_line = Some(RangeEnd(Val(line)))
        ELSE /\ exit = "fail"
             /\ err = "Invalid line range format"
             /\ pr_file_and_line_comments = <<>>
             /\ NoMutation

\* C4: the scope selection returns, in listing order, exactly the comments of
\* the given path (no line given), or exactly those of the given path whose
\* line is within [a,b] (a line or range given); it never fails.
C4_ScopeSelection ==
    /\ PathFiltered =>
          pr_file_comments = SelectSeq(review_comments, LAMBDA c : c.path = Val(file))
    /\ (ListedFileComments /\ start_line # None /\ pc # "line_level") =>
          /\ err # "TypeError"
          /\ pr_file_and_line_comments = WantedScope

\* C5: in comment and edit with a file given, the latest comment is none when
\* the scoped list has no comment without in_reply_to_id, and otherwise is the
\* last such comment in listing order; it is never a reply, and there is at
\* most one.
C5_LatestIsLastRoot ==
    (cmd \in {"comment", "edit"} /\ ScopeSelected) =>
        /\ Len(latest_comment) <= 1
        /\ (RootIndexes(ScopedList) = {} <=> latest_comment = None)
        /\ latest_comment # None =>
              \E i \in RootIndexes(ScopedList) :
                  /\ latest_comment = Some(ScopedList[i])
                  /\ \A j \in RootIndexes(ScopedList) : j <= i
        /\ latest_comment # None => IsRoot(Val(latest_comment))

C5_Witness ==
    /\ cmd \in {"comment", "edit"}
    /\ ScopeSelected
    /\ Cardinality(RootIndexes(ScopedList)) = 2
    /\ latest_comment = Some(ScopedList[2])

\* C6: the thread computed for a root is exactly the comments of the file
\* whose in_reply_to_id is the root's id, in listing order, none other and
\* none missing; the root is not in it.
ThreadIsExact(thread, comments, root) ==
    /\ \A k \in 1..Len(thread) :
          /\ \E i \in 1..Len(comments) : comments[i] = thread[k]
          /\ thread[k].in_reply_to_id = Some(root.id)
          /\ thread[k].id # root.id
    /\ \A i \in 1..Len(comments) :
          comments[i].in_reply_to_id = Some(root.id) =>
              \E k \in 1..Len(thread) : thread[k] = comments[i]
    /\ \A k1, k2 \in 1..Len(thread) : k1 < k2 => thread[k1].id < thread[k2].id

C7_CreateAnchor ==
    \A i \in CallsOf({"create"}) :
        line # None =>
            /\ calls[i].args.line = end_line
            /\ (calls[i].args.start_line # None <=> start_line # end_line)
            /\ (start_line # end_line => calls[i].args.start_line = start_line)

C7_Witness ==
    \E i \in CallsOf({"create"}) :
        /\ calls[i].args.line = Some(2)
        /\ calls[i].args.start_line = Some(1)

\* C8: an edit invocation whose selected scope (pull request, file, or file
\* and lines) holds no root comment ends with 'No comment to edit', and has
\* issued no PATCH or POST and has not opened the editor.
NoRootInScope ==
    IF file = None
    THEN line = None /\ CallsOf({"list_issue"}) # {} /\ pr_comments = <<>>
    ELSE /\ ListedFileComments
         /\ (line # None => start_line # None)
         /\ RootIndexes(WantedScope) = {}

C8_EditWithoutRoot ==
    (cmd = "edit" /\ pc = "done" /\ NoRootInScope) =>
        (exit = "fail" /\ err = "No comment to edit" /\ NoMutation /\ NoEditor)

\* C9: a comment or edit invocation whose editor returns an empty body ends
\* with a failure exit and sends no mutating call.
C9_EmptyBodyFails ==
    (cmd \in {"comment", "edit"} /\ pc = "done" /\ text = Some("")) =>
        (exit = "fail" /\ NoMutation)

\* C10: when an external call of view, comment, edit or approve fails, the
\* invocation stops at that call and ends with a failure exit.
ApiKinds == {"list_issue", "list_review", "head", "create", "reply", "patch",
             "issue_patch", "pr_comment", "approve"}

C10_FailuresSurface ==
    \A i \in CallsOf(ApiKinds) :
        ~calls[i].ok => (i = Len(calls) /\ pc = "done" /\ exit = "fail")

\* C11: a comment invocation with a file goes from the start through the
\* scope, then either with no latest root to the creation of a root, or with
\* a latest root to a reply, a new root or an abort, and then ends.  It
\* issues at most one comment-creating call, a reply only when a latest root
\* exists, every creating call after the scope and the body are settled, and
\* none when the user aborts.
CreatingCalls == CallsOf({"reply", "create"})

CommentEdges ==
    {<<"start", "init_api">>, <<"init_api", "branch">>, <<"branch", "parse">>,
     <<"parse", "file_level">>, <<"parse", "line_level">>,
     <<"file_level", "text">>, <<"line_level", "text">>, <<"text", "thread">>,
     <<"thread", "reply">>, <<"thread", "head">>, <<"head", "create">>}

CommentWithFile == cmd = "comment" /\ file # None

OneCreatingCall ==
    CommentWithFile =>
        /\ Cardinality(CreatingCalls) <= 1
        /\ \A i \in CreatingCalls :
              /\ i = Len(calls) /\ pc = "done"
              /\ \E j \in CallsOf({"list_review"}) : j < i /\ calls[j].ok
              /\ line # None => start_line # None
              /\ Truthy(text)
        /\ \A i \in CallsOf({"reply"}) : latest_comment # None
        /\ (pc = "reply" => latest_comment # None)
        /\ (pc \in {"head", "create"} => CreatingCalls = {})

CommentStep ==
    CommentWithFile =>
        /\ pc # "done"
        /\ pc' # "done" => <<pc, pc'>> \in CommentEdges
        /\ (pc = "thread" /\ latest_comment = None) => pc' = "head"
        /\ (pc = "thread" /\ pc' = "done") => CreatingCalls' = {}
        /\ (pc \in {"reply", "create"} /\ pc' = "done") =>
               Cardinality(CreatingCalls') = 1

C11_CommentStateMachine == []OneCreatingCall /\ [][CommentStep]_vars

C11_Witness ==
    /\ CommentWithFile /\ pc = "done" /\ exit = "ok"
    /\ latest_comment # None
    /\ \E i \in CallsOf({"reply"}) : calls[i].ok

\* C12: in a comment invocation with a file, whenever a latest root exists,
\* with no, one or several replies in its thread, the thread is presented
\* and the choice to continue it is reached; once the user continues, exactly
\* one reply is posted, addressed to the id of the latest root, with the new
\* body.
PastThreadStep ==
    /\ CommentWithFile
    /\ latest_comment # None
    /\ Truthy(text)
    /\ pc \notin {"text", "thread"}

ChoiceReached ==
    \/ pc \in {"reply", "head", "create"}
    \/ pc = "done" /\ exit = "ok"
    \/ pc = "done" /\ CallsOf({"reply", "head"}) # {}

C12_ContinueChoiceReached ==
    PastThreadStep =>
        /\ latest_comment_thread = CommentThread(pr_file_comments, Val(latest_comment))
        /\ ChoiceReached
        /\ Cardinality(CallsOf({"reply"})) <= 1
        /\ \A i \in CallsOf({"reply"}) :
              /\ calls[i].args.target = Some(Val(latest_comment).id)
              /\ calls[i].args.body = text

\* C13: every call that creates a root review comment directly follows, in
\* the same invocation, a successful fetch of the head commit made after the
\* scope, the body and the thread decision are settled, and its commit_id is
\* the id that fetch returned; an invocation that replies or aborts fetches
\* no head commit, and head holds no id other than the one fetched in this
\* invocation.
HeadCalls == CallsOf({"head"})

C13_FreshHeadCommit ==
    /\ \A i \in CallsOf({"create"}) :
          /\ i > 1
          /\ calls[i - 1].kind = "head" /\ calls[i - 1].ok
          /\ calls[i - 1].out # None
          /\ calls[i].args.commit_id = calls[i - 1].out
    /\ \A i \in HeadCalls :
          /\ \E j \in CallsOf({"list_review"}) : j < i /\ calls[j].ok
          /\ line # None => start_line # None
          /\ Truthy(text)
          /\ calls[i].ok =>
                \/ pc = "create" /\ i = Len(calls)
                \/ i < Len(calls) /\ calls[i + 1].kind = "create"
    /\ Cardinality(HeadCalls) <= 1
    /\ (CallsOf({"reply"}) # {} \/ pc = "reply") => HeadCalls = {}
    /\ head # None => \E i \in HeadCalls : calls[i].ok /\ calls[i].out = head

C13_Witness ==
    /\ cmd = "comment" /\ latest_comment # None /\ pc = "done"
    /\ \E i \in CallsOf({"create"}) :
          calls[i].ok /\ calls[i].args.commit_id = Some("sha2")

\* C14: when a call that creates a comment fails with an output reporting
\* that the path could not be resolved, gh_api raises FileNotInPRError, and
\* the message of the error names the file that the call passed as 'path='.
PathUnresolved(c) ==
    /\ ~c.ok /\ c.error # None
    /\ Val(c.error).unresolved /\ Val(c.error).path

C14_FileNotInPRGuidance ==
    \A i \in CallsOf({"create"}) :
        PathUnresolved(calls[i]) =>
            /\ Raised(calls[i]) = "FileNotInPRError"
            /\ Val(calls[i].raised).file_path = Val(calls[i].args.path)

\* C15: every accepted line range has start <= end, so a reversed range is
\* never a scope, and every root comment created on a range is sent with
\* start_line <= line.
C15_RangeOrdered ==
    /\ start_line # None => Val(start_line) <= Val(end_line)
    /\ \A i \in CallsOf({"create"}) :
          calls[i].args.start_line # None =>
              Val(calls[i].args.start_line) <= Val(calls[i].args.line)

====
